---- MODULE Spec2Model ----
(***************************************************************************)
(* A model of ExampleStrategy (src/src/example_strategy.py), a flumine     *)
(* betting strategy: the lazily generated per-market probability vector,   *)
(* the expected-value gated back/lay price selection, the reconciliation   *)
(* of resting orders, the starting-price (BSP) placement path, the         *)
(* settlement at market close; and of parse_market_files                   *)
(* (src/src/historical_files_parser.py).                                   *)
(*                                                                         *)
(* Numbers.  Prices and money are integers in hundredths (cents): 4.40 is  *)
(* 440.  The margin is a whole number of percent: 0.1 is 10.  A            *)
(* probability is the exact fraction draw/sum that                         *)
(* probabilities / probabilities.sum() denotes, kept as the record         *)
(* [n |-> draw, d |-> sum]; [n |-> 0, d |-> 0] is numpy's nan (0/0).       *)
(* Comparisons are made on exact fractions; the rounding error of binary   *)
(* floating point is not modelled.                                         *)
(***************************************************************************)
EXTENDS Integers, Sequences, FiniteSets, TLC

VARIABLES
    staking_strategy,      \* self.context['staking_strategy']
    stake,                 \* self.context['stake']
    margin,                \* self.margin, in percent
    min_back_price,        \* self.min_back_price, in cents
    max_back_price,        \* self.max_back_price
    min_lay_price,         \* self.min_lay_price
    max_lay_price,         \* self.max_lay_price
    seconds_to_start,      \* self.seconds_to_start
    market_probabilities,  \* self.market_probabilities: market id -> vector
    stores,                \* history: every (market id, vector) ever stored in it
    market_book,           \* the snapshot last delivered by the framework
    blotter,               \* market.blotter: the orders of this strategy
    trade_count,           \* RunnerContext.trade_count per selection id
    commands,              \* the order commands issued by the last handler
    result,                \* the last handler run and what it returned
    pc,                    \* per thread: position inside _generate_probabilities
    local,                 \* per thread: its arguments and local variables
    call                   \* the last direct call of a method and its result

cfgVars == <<staking_strategy, stake, margin, min_back_price, max_back_price,
             min_lay_price, max_lay_price, seconds_to_start>>

mktVars == <<market_book, blotter, trade_count, commands, result>>

thrVars == <<pc, local>>

cacheVars == <<market_probabilities, stores>>

vars == <<staking_strategy, stake, margin, min_back_price, max_back_price,
          min_lay_price, max_lay_price, seconds_to_start, market_probabilities,
          stores, market_book, blotter, trade_count, commands, result, pc, local, call>>

(***************************************************************************)
(* Python values.                                                          *)
(***************************************************************************)
\* Python's None where a price (or a return value) is absent.
None == -1

\* The TypeError Python 3 raises on  float < None.
TypeError == -2

\* Exact fractions n/d with d > 0.
Frac(n, d) == [n |-> n, d |-> d]

FracLt(a, b) == a.n * b.d < b.n * a.d

FracGt(a, b) == FracLt(b, a)

FracLe(a, b) == ~FracLt(b, a)

FracGe(a, b) == ~FracLt(a, b)

\* A price in cents as a fraction of cents.
OfPrice(price) == Frac(price, 1)

(***************************************************************************)
(* _get_back_price, _get_lay_price                                         *)
(***************************************************************************)
\* (1 / runner_probability) * (1 + self.margin), in cents.
BackPriceEv(runner_probability) ==
    Frac(runner_probability.d * (100 + margin), runner_probability.n)

\* (1 / runner_probability) / (1 + self.margin), in cents.
LayPriceEv(runner_probability) ==
    Frac(runner_probability.d * 10000, runner_probability.n * (100 + margin))

GetBackPrice_TakeOfferSwapped(runner_probability, lay_price, back_price) ==
    IF lay_price = None \/ back_price = None THEN None
    ELSE LET price == IF staking_strategy = "take" THEN lay_price
                      ELSE IF staking_strategy = "offer" THEN back_price
                      ELSE None
             runner_price_ev == BackPriceEv(runner_probability)
         IN  IF price = None THEN TypeError
             ELSE IF FracLt(runner_price_ev, OfPrice(price)) THEN None
             ELSE IF min_back_price > price THEN None
             ELSE IF max_back_price < price THEN None
             ELSE price

GetBackPrice(runner_probability, lay_price, back_price) ==
    IF lay_price = None \/ back_price = None THEN None
    ELSE LET price == IF staking_strategy = "take" THEN back_price
                      ELSE IF staking_strategy = "offer" THEN lay_price
                      ELSE None
             runner_price_ev == BackPriceEv(runner_probability)
         IN  IF price = None THEN TypeError
             ELSE IF FracLt(runner_price_ev, OfPrice(price)) THEN None
             ELSE IF min_back_price > price THEN None
             ELSE IF max_back_price < price THEN None
             ELSE price

GetLayPrice_NoMaxCheck(runner_probability, lay_price, back_price) ==
    IF lay_price = None \/ back_price = None THEN None
    ELSE LET price == IF staking_strategy = "take" THEN lay_price
                      ELSE IF staking_strategy = "offer" THEN back_price
                      ELSE None
             runner_price_ev == LayPriceEv(runner_probability)
         IN  IF price = None THEN TypeError
             ELSE IF FracGt(runner_price_ev, OfPrice(price)) THEN None
             ELSE IF min_lay_price > price THEN None
             ELSE price

GetLayPrice(runner_probability, lay_price, back_price) ==
    IF lay_price = None \/ back_price = None THEN None
    ELSE LET price == IF staking_strategy = "take" THEN lay_price
                      ELSE IF staking_strategy = "offer" THEN back_price
                      ELSE None
             runner_price_ev == LayPriceEv(runner_probability)
         IN  IF price = None THEN TypeError
             ELSE IF FracGt(runner_price_ev, OfPrice(price)) THEN None
             ELSE IF min_lay_price > price THEN None
             ELSE IF max_lay_price < price THEN None
             ELSE price

(***************************************************************************)
(* Configuration: add() reads the context once, with these defaults.       *)
(***************************************************************************)
DefaultSecondsToStart == 60

DefaultMargin == 10

DefaultMinPrice == 100

DefaultMaxPrice == 15000

\* The empty dict of add(): self.market_probabilities = {}.
EmptyDict == [m \in {} |-> <<>>]

\* The variables a specification does not use stay at these values.
NoCall == [fn |-> "none"]

NoBook == [market_id |-> "none"]

NoResult == [handler |-> "none"]

IdleThreads ==
    /\ pc = <<>>
    /\ local = <<>>

IdleMarket ==
    /\ market_book = NoBook
    /\ blotter = <<>>
    /\ trade_count = <<>>
    /\ commands = <<>>
    /\ result = NoResult

(***************************************************************************)
(* Direct calls of _get_back_price and _get_lay_price on inputs drawn from *)
(* bounded sets, under every take/offer configuration of a bounded set.    *)
(***************************************************************************)
\* Probabilities n/d in (0, 1] with d <= MaxSum.
MaxSum == 5

Probabilities ==
    {f \in {Frac(n, d) : n \in 1..MaxSum, d \in 1..MaxSum} : f.n <= f.d}

\* Best prices offered to the pricing functions: absent, or on the ladder.
PriceInputs == {None, 200, 300, 400, 440, 450, 500, 780, 800}

\* [min, max] bounds: the defaults, and a narrow band.
PriceBounds == {<<DefaultMinPrice, DefaultMaxPrice>>, <<300, 450>>}

InitPrice ==
    /\ staking_strategy \in {"take", "offer"}
    /\ stake = 1000
    /\ margin \in {0, DefaultMargin}
    /\ \E b \in PriceBounds : min_back_price = b[1] /\ max_back_price = b[2]
    /\ \E b \in PriceBounds : min_lay_price = b[1] /\ max_lay_price = b[2]
    /\ seconds_to_start = DefaultSecondsToStart
    /\ market_probabilities = EmptyDict
    /\ stores = {}
    /\ IdleMarket
    /\ IdleThreads
    /\ call = NoCall

CallGetBackPrice ==
    /\ call = NoCall
    /\ \E p \in Probabilities, lay_price \in PriceInputs, back_price \in PriceInputs :
          call' = [fn |-> "_get_back_price", runner_probability |-> p,
                   lay_price |-> lay_price, back_price |-> back_price,
                   result |-> GetBackPrice(p, lay_price, back_price)]
    /\ UNCHANGED <<cfgVars, cacheVars, mktVars, thrVars>>

CallGetLayPrice ==
    /\ call = NoCall
    /\ \E p \in Probabilities, lay_price \in PriceInputs, back_price \in PriceInputs :
          call' = [fn |-> "_get_lay_price", runner_probability |-> p,
                   lay_price |-> lay_price, back_price |-> back_price,
                   result |-> GetLayPrice(p, lay_price, back_price)]
    /\ UNCHANGED <<cfgVars, cacheVars, mktVars, thrVars>>

NextPrice == CallGetBackPrice \/ CallGetLayPrice

SpecPrice == InitPrice /\ [][NextPrice]_vars

MarketIds == {"1.101", "1.102"}

\* A draw of uniform(0, 1) is one of 0/(MaxDraw+1) .. MaxDraw/(MaxDraw+1),
\* kept as its numerator; the draw 0 is possible, the draw 1 is not.
MaxDraw == 1

Draws(n) == [1..n -> 0..MaxDraw]

RECURSIVE SumTo(_, _)
SumTo(f, k) == IF k = 0 THEN 0 ELSE f[k] + SumTo(f, k - 1)

\* probabilities / probabilities.sum()
Normalise(draws) ==
    [i \in 1..Len(draws) |-> Frac(draws[i], SumTo(draws, Len(draws)))]

\* self.market_probabilities[market_id] = probabilities
DictSet(dict, key, value) ==
    [k \in DOMAIN dict \cup {key} |-> IF k = key THEN value ELSE dict[k]]

(***************************************************************************)
(* Two threads inside their first call of _generate_probabilities.  The    *)
(* method takes no lock, so the threads interleave between its lines: the  *)
(* membership test (37), the draw (38), the normalisation (39), the store  *)
(* (40) and the final read (42).                                           *)
(***************************************************************************)
NumThreads == 2

Threads == 1..NumThreads

\* number_of_active_runners of the snapshots the threads are called with.
ThreadRunnerCounts == {2, 3}

InitThreads ==
    /\ staking_strategy = "take"
    /\ stake = 1000
    /\ margin = DefaultMargin
    /\ min_back_price = DefaultMinPrice /\ max_back_price = DefaultMaxPrice
    /\ min_lay_price = DefaultMinPrice /\ max_lay_price = DefaultMaxPrice
    /\ seconds_to_start = DefaultSecondsToStart
    /\ market_probabilities = EmptyDict
    /\ stores = {}
    /\ IdleMarket
    /\ call = NoCall
    /\ pc = [t \in Threads |-> "line37"]
    /\ local \in [Threads -> [market_id : MarketIds,
                              number_of_active_runners : ThreadRunnerCounts,
                              probabilities : {None}, returned : {None}]]

\* line 37: if market.market_id not in self.market_probabilities
ThreadCheck(t) ==
    /\ pc[t] = "line37"
    /\ pc' = [pc EXCEPT ![t] = IF local[t].market_id \notin DOMAIN market_probabilities
                               THEN "line38" ELSE "line42"]
    /\ UNCHANGED <<cfgVars, cacheVars, mktVars, local, call>>

\* line 38: probabilities = default_rng().uniform(0, 1, number_of_active_runners)
ThreadDraw(t) ==
    /\ pc[t] = "line38"
    /\ \E draws \in Draws(local[t].number_of_active_runners) :
          local' = [local EXCEPT ![t].probabilities = draws]
    /\ pc' = [pc EXCEPT ![t] = "line39"]
    /\ UNCHANGED <<cfgVars, cacheVars, mktVars, call>>

\* line 39: probabilities = probabilities / probabilities.sum()
ThreadNormalise(t) ==
    /\ pc[t] = "line39"
    /\ local' = [local EXCEPT ![t].probabilities = Normalise(local[t].probabilities)]
    /\ pc' = [pc EXCEPT ![t] = "line40"]
    /\ UNCHANGED <<cfgVars, cacheVars, mktVars, call>>

\* line 40: self.market_probabilities[market.market_id] = probabilities
ThreadStore(t) ==
    /\ pc[t] = "line40"
    /\ market_probabilities' =
          DictSet(market_probabilities, local[t].market_id, local[t].probabilities)
    /\ stores' = stores \cup {<<local[t].market_id, local[t].probabilities>>}
    /\ pc' = [pc EXCEPT ![t] = "line42"]
    /\ UNCHANGED <<cfgVars, mktVars, local, call>>

\* line 42: return self.market_probabilities[market.market_id]
ThreadReturn(t) ==
    /\ pc[t] = "line42"
    /\ local' = [local EXCEPT ![t].returned = market_probabilities[local[t].market_id]]
    /\ pc' = [pc EXCEPT ![t] = "done"]
    /\ UNCHANGED <<cfgVars, cacheVars, mktVars, call>>

NextThreads ==
    \E t \in Threads :
        \/ ThreadCheck(t)
        \/ ThreadDraw(t)
        \/ ThreadNormalise(t)
        \/ ThreadStore(t)
        \/ ThreadReturn(t)

SpecThreads == InitThreads /\ [][NextThreads]_vars

(***************************************************************************)
(* C1: when two threads make the first call of _generate_probabilities     *)
(* for the same market id concurrently, both calls return the same vector  *)
(* and only one vector is ever stored for that market id.  The code takes  *)
(* no lock: TLC finds this violated.                                       *)
(***************************************************************************)
C1_ConcurrentFirstCalls ==
    /\ \A t1 \in Threads, t2 \in Threads :
          (/\ pc[t1] = "done" /\ pc[t2] = "done"
           /\ local[t1].market_id = local[t2].market_id)
          => local[t1].returned = local[t2].returned
    /\ \A m \in MarketIds : Cardinality({s \in stores : s[1] = m}) <= 1

(***************************************************************************)
(* Orders and order commands.  A command is what the strategy hands to     *)
(* market.place_order or market.replace_order; an order is an entry of     *)
(* market.blotter as strategy_selection_orders returns it.                 *)
(***************************************************************************)
\* trade.create_order(side, LimitOrder(price, size)); market.place_order(order)
PlaceLimit(selection_id, side, price, size) ==
    [op |-> "place_order", selection_id |-> selection_id, side |-> side,
     order_type |-> "LIMIT", price |-> price, size |-> size,
     liability |-> None, order |-> 0]

\* trade.create_order(side, LimitOnCloseOrder(liability, price)); place_order
PlaceLimitOnClose(selection_id, side, liability, price) ==
    [op |-> "place_order", selection_id |-> selection_id, side |-> side,
     order_type |-> "LIMIT_ON_CLOSE", price |-> price, size |-> None,
     liability |-> liability, order |-> 0]

\* market.replace_order(order, proposed_price); order is the position of the
\* order in strategy_selection_orders(self, selection_id, handicap).
Replace(selection_id, side, order, proposed_price) ==
    [op |-> "replace_order", selection_id |-> selection_id, side |-> side,
     order_type |-> "LIMIT", price |-> proposed_price, size |-> None,
     liability |-> None, order |-> order]

RECURSIVE Flatten(_)
Flatten(ss) == IF ss = <<>> THEN <<>> ELSE Head(ss) \o Flatten(Tail(ss))

(***************************************************************************)
(* flumine.utils.get_nearest_price: the nearest price of the exchange's    *)
(* ladder, halves rounded up.  Below 2 the ladder moves by 0.01, below 3   *)
(* by 0.02, ... up to 1000 by 10; prices at or under 1.01 give 1.01 and    *)
(* prices over 1000 give 1000.                                             *)
(***************************************************************************)
MIN_PRICE == 101

MAX_PRICE == 100000

\* (cutoff, increment) in cents.
CUTOFFS == << <<200, 1>>, <<300, 2>>, <<400, 5>>, <<600, 10>>, <<1000, 20>>,
              <<2000, 50>>, <<3000, 100>>, <<5000, 200>>, <<10000, 500>>,
              <<100000, 1000>> >>

\* for cutoff, step in cutoffs: if price < cutoff: break
RECURSIVE IncrementAt(_, _)
IncrementAt(price, k) ==
    IF k = Len(CUTOFFS) \/ FracLt(price, OfPrice(CUTOFFS[k][1]))
    THEN CUTOFFS[k][2]
    ELSE IncrementAt(price, k + 1)

\* price, a fraction of cents, rounded half up to a multiple of increment.
RoundHalfUpTo(price, increment) ==
    increment * ((2 * price.n + increment * price.d) \div (2 * increment * price.d))

GetNearestPrice(price) ==
    IF FracLe(price, OfPrice(MIN_PRICE)) THEN MIN_PRICE
    ELSE IF FracGt(price, OfPrice(MAX_PRICE)) THEN MAX_PRICE
    ELSE RoundHalfUpTo(price, IncrementAt(price, 1))

\* Python's round(x, 2) of an amount x given as a fraction of cents: to the
\* nearest cent, an exact half to the even cent.
Round2(x) ==
    LET q == x.n \div x.d
        r == x.n % x.d
    IN  IF 2 * r < x.d THEN q
        ELSE IF 2 * r > x.d THEN q + 1
        ELSE IF q % 2 = 0 THEN q ELSE q + 1

(***************************************************************************)
(* _place_bsp_bets: the commands it issues for one runner.                 *)
(***************************************************************************)
\* Min liability for lay bets is 30AUD (lines 326 to 328).
MinLayLiability == 3000

\* round((projected_bsp - 1) * stake, 2), floored at the minimum, in cents:
\* projected_bsp = (back_price + lay_price) / 2.
LimitLayLiability_NoFloor(back_price, lay_price) ==
    Round2(Frac((back_price + lay_price - 200) * stake, 200))

LimitLayLiability(back_price, lay_price) ==
    LET limit_lay_liability ==
            Round2(Frac((back_price + lay_price - 200) * stake, 200))
    IN  IF limit_lay_liability < MinLayLiability THEN MinLayLiability
        ELSE limit_lay_liability

PlaceBspBets_GateInverted(selection_id, back_price, lay_price, runner_probability) ==
    IF trade_count[selection_id] # 0 THEN <<>>
    ELSE IF back_price = None \/ lay_price = None THEN <<>>
    ELSE LET limit_back_price_tick == GetNearestPrice(BackPriceEv(runner_probability))
             limit_lay_price_tick == GetNearestPrice(LayPriceEv(runner_probability))
             limit_lay_liability == LimitLayLiability(back_price, lay_price)
         IN  (IF min_back_price <= limit_back_price_tick
                  /\ limit_back_price_tick <= max_back_price
              THEN <<PlaceLimitOnClose(selection_id, "BACK", stake, limit_back_price_tick)>>
              ELSE <<>>)
             \o
             (IF min_lay_price <= limit_lay_price_tick
                  /\ limit_lay_price_tick <= max_lay_price
              THEN <<PlaceLimitOnClose(selection_id, "LAY", limit_lay_liability,
                                       limit_lay_price_tick)>>
              ELSE <<>>)

PlaceBspBets_BackGatesLay(selection_id, back_price, lay_price, runner_probability) ==
    IF trade_count[selection_id] = 0 THEN <<>>
    ELSE IF back_price = None \/ lay_price = None THEN <<>>
    ELSE LET limit_back_price_tick == GetNearestPrice(BackPriceEv(runner_probability))
             limit_lay_price_tick == GetNearestPrice(LayPriceEv(runner_probability))
             limit_lay_liability == LimitLayLiability(back_price, lay_price)
         IN  IF min_back_price <= limit_back_price_tick
                  /\ limit_back_price_tick <= max_back_price
             THEN <<PlaceLimitOnClose(selection_id, "BACK", stake, limit_back_price_tick)>>
                  \o (IF min_lay_price <= limit_lay_price_tick
                         /\ limit_lay_price_tick <= max_lay_price
                      THEN <<PlaceLimitOnClose(selection_id, "LAY", limit_lay_liability,
                                               limit_lay_price_tick)>>
                      ELSE <<>>)
             ELSE <<>>

PlaceBspBets(selection_id, back_price, lay_price, runner_probability) ==
    IF trade_count[selection_id] = 0 THEN <<>>
    ELSE IF back_price = None \/ lay_price = None THEN <<>>
    ELSE LET limit_back_price_tick == GetNearestPrice(BackPriceEv(runner_probability))
             limit_lay_price_tick == GetNearestPrice(LayPriceEv(runner_probability))
             limit_lay_liability == LimitLayLiability(back_price, lay_price)
         IN  (IF min_back_price <= limit_back_price_tick
                  /\ limit_back_price_tick <= max_back_price
              THEN <<PlaceLimitOnClose(selection_id, "BACK", stake, limit_back_price_tick)>>
              ELSE <<>>)
             \o
             (IF min_lay_price <= limit_lay_price_tick
                  /\ limit_lay_price_tick <= max_lay_price
              THEN <<PlaceLimitOnClose(selection_id, "LAY", limit_lay_liability,
                                       limit_lay_price_tick)>>
              ELSE <<>>)

(***************************************************************************)
(* What the framework does with the commands of one handler run, before    *)
(* the next event of the market: place_order puts the new order in the     *)
(* blotter, where it rests EXECUTABLE, and counts its trade in the         *)
(* runner's RunnerContext (both orders of one runner belong to one Trade); *)
(* replace_order marks the order REPLACING and keeps the price asked for.  *)
(***************************************************************************)
Runners == {1, 2, 3}

NewOrder(c) ==
    [side |-> c.side, status |-> "EXECUTABLE", order_type |-> c.order_type,
     price |-> c.price, size |-> c.size, liability |-> c.liability,
     size_matched |-> 0, new_price |-> None]

ApplyCommand(b, c) ==
    IF c.op = "place_order"
    THEN [b EXCEPT ![c.selection_id] = Append(@, NewOrder(c))]
    ELSE [b EXCEPT ![c.selection_id][c.order].status = "REPLACING",
                   ![c.selection_id][c.order].new_price = c.price]

RECURSIVE ApplyCommands(_, _)
ApplyCommands(b, cmds) ==
    IF cmds = <<>> THEN b
    ELSE ApplyCommands(ApplyCommand(b, Head(cmds)), Tail(cmds))

Placed(cmds, selection_id) ==
    \E i \in DOMAIN cmds :
        cmds[i].op = "place_order" /\ cmds[i].selection_id = selection_id

CountTrades(tc, cmds) ==
    [s \in DOMAIN tc |-> IF Placed(cmds, s) THEN tc[s] + 1 ELSE tc[s]]

(***************************************************************************)
(* Direct calls of _place_bsp_bets for one runner, with the runner's trade *)
(* count, the best prices and the probability drawn from bounded sets.     *)
(***************************************************************************)
MaxTradeCount == 1

BspStakes == {1000, 455}

InitBsp ==
    /\ staking_strategy = "bsp"
    /\ stake \in BspStakes
    /\ margin = DefaultMargin
    /\ \E b \in PriceBounds : min_back_price = b[1] /\ max_back_price = b[2]
    /\ \E b \in PriceBounds : min_lay_price = b[1] /\ max_lay_price = b[2]
    /\ seconds_to_start = DefaultSecondsToStart
    /\ market_probabilities = EmptyDict
    /\ stores = {}
    /\ market_book = NoBook
    /\ blotter = [s \in Runners |-> <<>>]
    /\ \E n \in 0..MaxTradeCount : trade_count = [s \in Runners |-> n]
    /\ commands = <<>>
    /\ result = NoResult
    /\ IdleThreads
    /\ call = NoCall

CallPlaceBspBets ==
    /\ call = NoCall
    /\ \E selection_id \in Runners, p \in Probabilities,
          back_price \in PriceInputs, lay_price \in PriceInputs :
          LET cmds == PlaceBspBets(selection_id, back_price, lay_price, p)
          IN  /\ commands' = cmds
              /\ blotter' = ApplyCommands(blotter, cmds)
              /\ trade_count' = CountTrades(trade_count, cmds)
              /\ call' = [fn |-> "_place_bsp_bets", selection_id |-> selection_id,
                          runner_probability |-> p, back_price |-> back_price,
                          lay_price |-> lay_price,
                          trade_count |-> trade_count[selection_id]]
    /\ UNCHANGED <<cfgVars, cacheVars, market_book, result, thrVars>>

NextBsp == CallPlaceBspBets

SpecBsp == InitBsp /\ [][NextBsp]_vars

\* The commands of the last handler run that place an order on a side.
PlacedOn(side) ==
    {i \in DOMAIN commands : commands[i].op = "place_order" /\ commands[i].side = side}

(***************************************************************************)
(* C9: in _place_bsp_bets, when the trade-count gate passes and both best  *)
(* prices are present, a limit-on-close back order with liability equal to *)
(* the stake is placed at tick(1/p*(1+margin)) exactly when that tick      *)
(* price lies in [minBackPrice, maxBackPrice], and a limit-on-close lay    *)
(* order is placed at tick(1/p/(1+margin)) exactly when that tick price    *)
(* lies in [minLayPrice, maxLayPrice]; each decision is taken whatever the *)
(* other is; when either best price is absent nothing is placed.           *)
(***************************************************************************)
C9_BspPlacement ==
    (call.fn = "_place_bsp_bets" /\ call.trade_count # 0) =>
        LET p == call.runner_probability
            backTick == GetNearestPrice(Frac(p.d * (100 + margin), p.n))
            layTick == GetNearestPrice(Frac(p.d * 10000, p.n * (100 + margin)))
            backOk == min_back_price <= backTick /\ backTick <= max_back_price
            layOk == min_lay_price <= layTick /\ layTick <= max_lay_price
        IN  IF call.back_price = None \/ call.lay_price = None
            THEN commands = <<>>
            ELSE /\ Cardinality(PlacedOn("BACK")) = (IF backOk THEN 1 ELSE 0)
                 /\ Cardinality(PlacedOn("LAY")) = (IF layOk THEN 1 ELSE 0)
                 /\ Len(commands) = Cardinality(PlacedOn("BACK") \cup PlacedOn("LAY"))
                 /\ \A i \in DOMAIN commands :
                       /\ commands[i].order_type = "LIMIT_ON_CLOSE"
                       /\ commands[i].selection_id = call.selection_id
                 /\ \A i \in PlacedOn("BACK") :
                       commands[i].price = backTick /\ commands[i].liability = stake
                 /\ \A i \in PlacedOn("LAY") : commands[i].price = layTick

\* The gate passed, both prices are there, and the lay order alone was placed:
\* probability 1/5 under the narrow bounds gives back tick 5.5, lay tick 4.5.
C9_Witness ==
    /\ call.fn = "_place_bsp_bets" /\ call.trade_count # 0
    /\ call.back_price # None /\ call.lay_price # None
    /\ PlacedOn("BACK") = {} /\ PlacedOn("LAY") # {}
    /\ max_back_price = 450 /\ call.runner_probability = Frac(1, 5)
    /\ \A i \in PlacedOn("LAY") : commands[i].price = 450

(***************************************************************************)
(* C10: every limit-on-close lay order placed by _place_bsp_bets carries   *)
(* liability max(30, round((projectedStartingPrice - 1) * stake, 2)) with  *)
(* projectedStartingPrice = (bestBackPrice + bestLayPrice) / 2: it is      *)
(* never below 30, a computed value below 30 being floored.                *)
(***************************************************************************)
C10_LayLiability ==
    call.fn = "_place_bsp_bets" =>
        \A i \in PlacedOn("LAY") :
            LET raw == Round2(Frac((call.back_price + call.lay_price - 200) * stake, 200))
            IN  /\ commands[i].liability = (IF raw < 3000 THEN 3000 ELSE raw)
                /\ commands[i].liability >= 3000

\* The spec's example: projected starting price 2.0, stake 10: the raw
\* liability 10 is floored to 30.
C10_Witness ==
    /\ call.fn = "_place_bsp_bets"
    /\ stake = 1000 /\ call.back_price = 200 /\ call.lay_price = 200
    /\ \E i \in PlacedOn("LAY") : commands[i].liability = 3000

(***************************************************************************)
(* Market snapshots.  A MarketBook is a record of its market id, status,   *)
(* in-play flag, number_of_active_runners and runners; seconds_to_start    *)
(* (a property of the Market) and market_base_rate (of the market          *)
(* definition) are kept in the same record.  A runner is its selection id  *)
(* (its position in the book), its status and its best back and lay price: *)
(* get_price(runner.ex.available_to_back, 0) and                           *)
(* get_price(runner.ex.available_to_lay, 0), None when the side is empty.  *)
(* Every runner has handicap 0.                                            *)
(***************************************************************************)
\* <<best back, best lay>> of an active runner whose prices move.
PricePairs == {<<None, 210>>, <<200, 210>>, <<210, 300>>}

\* <<best back, best lay>> of an active runner whose prices stay.
QuietPair == <<210, 300>>

ActiveRunnerBook(pp) == [status |-> "ACTIVE", back |-> pp[1], lay |-> pp[2]]

RemovedRunnerBook == [status |-> "REMOVED", back |-> None, lay |-> None]

CountActive(runners) ==
    Cardinality({i \in DOMAIN runners : runners[i].status = "ACTIVE"})

\* The market whose updates the strategy is sent.
TheMarket == "1.101"

\* Status, in-play flag and seconds to start of a snapshot: before the
\* trading window, inside it, in play.
Phases == {<<"OPEN", FALSE, 90>>, <<"OPEN", FALSE, 30>>, <<"OPEN", TRUE, -10>>}

Book(phase, runners) ==
    [market_id |-> TheMarket, status |-> phase[1], inplay |-> phase[2],
     seconds_to_start |-> phase[3], market_base_rate |-> None,
     number_of_active_runners |-> CountActive(runners), runners |-> runners]

\* The snapshots delivered: of a market of two runners whose prices move
\* from snapshot to snapshot, and of a market of three runners with steady
\* prices, any of which may be removed.
MarketBooks ==
    {Book(phase, runners) :
        phase \in Phases,
        runners \in [1..2 -> {ActiveRunnerBook(pp) : pp \in PricePairs}]}
    \cup
    {Book(phase, runners) :
        phase \in Phases,
        runners \in [1..3 -> {ActiveRunnerBook(QuietPair), RemovedRunnerBook}]}

\* What a market's next snapshot keeps of the previous one: the runners are
\* the same, a removed runner stays removed, time does not run backwards.
Follows(book, previous) ==
    IF previous = NoBook THEN TRUE
    ELSE /\ DOMAIN book.runners = DOMAIN previous.runners
         /\ \A i \in DOMAIN previous.runners :
               previous.runners[i].status = "REMOVED"
               => book.runners[i].status = "REMOVED"
         /\ book.seconds_to_start <= previous.seconds_to_start

(***************************************************************************)
(* check_market_book                                                       *)
(***************************************************************************)
CheckMarketBook_EightExcluded(book) ==
    IF book = NoBook THEN FALSE
    ELSE IF book.status # "OPEN" THEN FALSE
    ELSE IF book.inplay = TRUE THEN FALSE
    ELSE IF book.number_of_active_runners < 2 THEN FALSE
    ELSE IF book.number_of_active_runners >= 8 THEN FALSE
    ELSE IF book.seconds_to_start > seconds_to_start THEN FALSE
    ELSE TRUE

CheckMarketBook(book) ==
    IF book = NoBook THEN FALSE
    ELSE IF book.status # "OPEN" THEN FALSE
    ELSE IF book.inplay = TRUE THEN FALSE
    ELSE IF book.number_of_active_runners < 2 THEN FALSE
    ELSE IF book.number_of_active_runners > 8 THEN FALSE
    ELSE IF book.seconds_to_start > seconds_to_start THEN FALSE
    ELSE TRUE

(***************************************************************************)
(* process_market_book                                                     *)
(***************************************************************************)
\* _generate_probabilities run by one thread without interruption: the
\* dict after the call; the value returned is the dict's entry.
GenerateProbabilities_Regenerate(dict, market_id, draws) ==
    IF market_id \notin DOMAIN dict \/ Len(dict[market_id]) # Len(draws)
    THEN DictSet(dict, market_id, Normalise(draws))
    ELSE dict

GenerateProbabilities(dict, market_id, draws) ==
    IF market_id \notin DOMAIN dict
    THEN DictSet(dict, market_id, Normalise(draws))
    ELSE dict

\* math.isnan(runner_probability): 0/0 is the only nan the draws produce.
IsNan(runner_probability) == runner_probability.d = 0

\* runner_probability is None or nan or == 0 (line 118).
Invalid(runner_probability) ==
    IsNan(runner_probability) \/ runner_probability.n = 0

\* The selection ids of the ACTIVE runners in snapshot order: the runner at
\* position k of this sequence is given race_probability[k].
ActiveRunners(book) ==
    SelectSeq([i \in 1..Len(book.runners) |-> i],
              LAMBDA i : book.runners[i].status = "ACTIVE")

\* Lines 153 to 168 for one order of selection_orders: the replace command
\* it gets, if any.
ReplaceCommands_NotStrict(selection_id, j, order, runner_probability, lay_price, back_price) ==
    (IF order.side = "BACK" /\ order.status = "EXECUTABLE"
     THEN LET proposed_price == GetBackPrice(runner_probability, lay_price, back_price)
          IN  IF proposed_price # None /\ proposed_price <= order.price
              THEN <<Replace(selection_id, "BACK", j, proposed_price)>>
              ELSE <<>>
     ELSE <<>>)
    \o
    (IF order.side = "LAY" /\ order.status = "EXECUTABLE"
     THEN LET proposed_price == GetLayPrice(runner_probability, lay_price, back_price)
          IN  IF proposed_price # None /\ proposed_price >= order.price
              THEN <<Replace(selection_id, "LAY", j, proposed_price)>>
              ELSE <<>>
     ELSE <<>>)

ReplaceCommands_AwayFromMarket(selection_id, j, order, runner_probability, lay_price, back_price) ==
    (IF order.side = "BACK" /\ order.status = "EXECUTABLE"
     THEN LET proposed_price == GetBackPrice(runner_probability, lay_price, back_price)
          IN  IF proposed_price # None /\ proposed_price > order.price
              THEN <<Replace(selection_id, "BACK", j, proposed_price)>>
              ELSE <<>>
     ELSE <<>>)
    \o
    (IF order.side = "LAY" /\ order.status = "EXECUTABLE"
     THEN LET proposed_price == GetLayPrice(runner_probability, lay_price, back_price)
          IN  IF proposed_price # None /\ proposed_price < order.price
              THEN <<Replace(selection_id, "LAY", j, proposed_price)>>
              ELSE <<>>
     ELSE <<>>)

ReplaceCommands(selection_id, j, order, runner_probability, lay_price, back_price) ==
    (IF order.side = "BACK" /\ order.status = "EXECUTABLE"
     THEN LET proposed_price == GetBackPrice(runner_probability, lay_price, back_price)
          IN  IF proposed_price # None /\ proposed_price < order.price
              THEN <<Replace(selection_id, "BACK", j, proposed_price)>>
              ELSE <<>>
     ELSE <<>>)
    \o
    (IF order.side = "LAY" /\ order.status = "EXECUTABLE"
     THEN LET proposed_price == GetLayPrice(runner_probability, lay_price, back_price)
          IN  IF proposed_price # None /\ proposed_price > order.price
              THEN <<Replace(selection_id, "LAY", j, proposed_price)>>
              ELSE <<>>
     ELSE <<>>)

\* has_back_bets / has_lay_bets after the loop over selection_orders.
HasBets_ExecutableOnly(selection_orders, side) ==
    \E j \in DOMAIN selection_orders :
        selection_orders[j].side = side /\ selection_orders[j].status = "EXECUTABLE"

HasBets(selection_orders, side) ==
    \E j \in DOMAIN selection_orders : selection_orders[j].side = side

\* Lines 170 to 189: the orders placed for one runner.
PlaceCommands_FirstRunnerOnly(selection_id, selection_orders, runner_probability, lay_price, back_price) ==
    IF selection_id # 1 THEN <<>>
    ELSE
    (IF ~HasBets(selection_orders, "BACK")
     THEN LET proposed_price == GetBackPrice(runner_probability, lay_price, back_price)
          IN  IF proposed_price # None
              THEN <<PlaceLimit(selection_id, "BACK", proposed_price, stake)>>
              ELSE <<>>
     ELSE <<>>)
    \o
    (IF ~HasBets(selection_orders, "LAY")
     THEN LET proposed_price == GetLayPrice(runner_probability, lay_price, back_price)
          IN  IF proposed_price # None
              THEN <<PlaceLimit(selection_id, "LAY", proposed_price, stake)>>
              ELSE <<>>
     ELSE <<>>)

PlaceCommands(selection_id, selection_orders, runner_probability, lay_price, back_price) ==
    (IF ~HasBets(selection_orders, "BACK")
     THEN LET proposed_price == GetBackPrice(runner_probability, lay_price, back_price)
          IN  IF proposed_price # None
              THEN <<PlaceLimit(selection_id, "BACK", proposed_price, stake)>>
              ELSE <<>>
     ELSE <<>>)
    \o
    (IF ~HasBets(selection_orders, "LAY")
     THEN LET proposed_price == GetLayPrice(runner_probability, lay_price, back_price)
          IN  IF proposed_price # None
              THEN <<PlaceLimit(selection_id, "LAY", proposed_price, stake)>>
              ELSE <<>>
     ELSE <<>>)

RunnerCommands_TradeCountGate(book, selection_id, runner_probability) ==
    LET runner == book.runners[selection_id]
        selection_orders == blotter[selection_id]
    IN  IF trade_count[selection_id] = 0 THEN <<>>
        ELSE Flatten([j \in 1..Len(selection_orders) |->
                         ReplaceCommands(selection_id, j, selection_orders[j],
                                         runner_probability, runner.lay, runner.back)])
             \o PlaceCommands(selection_id, selection_orders, runner_probability,
                              runner.lay, runner.back)

\* Lines 149 to 189: one iteration of the take/offer loop, for the runner
\* with this selection id and probability.
RunnerCommands(book, selection_id, runner_probability) ==
    LET runner == book.runners[selection_id]
        selection_orders == blotter[selection_id]
    IN  Flatten([j \in 1..Len(selection_orders) |->
                    ReplaceCommands(selection_id, j, selection_orders[j],
                                    runner_probability, runner.lay, runner.back)])
        \o PlaceCommands(selection_id, selection_orders, runner_probability,
                         runner.lay, runner.back)

ProcessOutcome_NoLengthCheck(book, race_probability) ==
    LET active == ActiveRunners(book)
    IN  IF \E k \in DOMAIN active : Invalid(race_probability[k])
        THEN [returned |-> "NameError", cmds |-> <<>>]
        ELSE IF active = <<>>
        THEN [returned |-> "None", cmds |-> <<>>]
        ELSE IF staking_strategy = "bsp"
        THEN [returned |-> "None",
              cmds |-> PlaceBspBets(active[1], book.runners[active[1]].back,
                                    book.runners[active[1]].lay, race_probability[1])]
        ELSE [returned |-> "None",
              cmds |-> Flatten([k \in DOMAIN active |->
                                   RunnerCommands(book, active[k], race_probability[k])])]

ProcessOutcome_ValidateInLoop(book, race_probability) ==
    LET active == ActiveRunners(book)
        invalid == {k \in DOMAIN active : Invalid(race_probability[k])}
        reached == {k \in DOMAIN active : \A i \in invalid : k < i}
    IN  IF Len(race_probability) # book.number_of_active_runners
        THEN [returned |-> "False", cmds |-> <<>>]
        ELSE IF active = <<>>
        THEN [returned |-> "None", cmds |-> <<>>]
        ELSE IF staking_strategy = "bsp"
        THEN [returned |-> IF 1 \in invalid THEN "NameError" ELSE "None",
              cmds |-> IF 1 \in invalid THEN <<>>
                       ELSE PlaceBspBets(active[1], book.runners[active[1]].back,
                                         book.runners[active[1]].lay,
                                         race_probability[1])]
        ELSE [returned |-> IF invalid = {} THEN "None" ELSE "NameError",
              cmds |-> Flatten([k \in 1..Cardinality(reached) |->
                                   RunnerCommands(book, active[k], race_probability[k])])]

ProcessOutcome_BspEveryRunner(book, race_probability) ==
    LET active == ActiveRunners(book)
    IN  IF Len(race_probability) # book.number_of_active_runners
        THEN [returned |-> "False", cmds |-> <<>>]
        ELSE IF \E k \in DOMAIN active : Invalid(race_probability[k])
        THEN [returned |-> "NameError", cmds |-> <<>>]
        ELSE IF active = <<>>
        THEN [returned |-> "None", cmds |-> <<>>]
        ELSE IF staking_strategy = "bsp"
        THEN [returned |-> "None",
              cmds |-> Flatten([k \in DOMAIN active |->
                          PlaceBspBets(active[k], book.runners[active[k]].back,
                                       book.runners[active[k]].lay,
                                       race_probability[k])])]
        ELSE [returned |-> "None",
              cmds |-> Flatten([k \in DOMAIN active |->
                                   RunnerCommands(book, active[k], race_probability[k])])]

\* Lines 95 to 191: what process_market_book returns and the commands it
\* issues, given the vector _generate_probabilities returned.  The warning
\* of line 119 formats the name  race , which is bound nowhere: reaching it
\* raises NameError before the  return False  of line 120.
ProcessOutcome(book, race_probability) ==
    LET active == ActiveRunners(book)
    IN  IF Len(race_probability) # book.number_of_active_runners
        THEN [returned |-> "False", cmds |-> <<>>]
        ELSE IF \E k \in DOMAIN active : Invalid(race_probability[k])
        THEN [returned |-> "NameError", cmds |-> <<>>]
        ELSE IF active = <<>>
        THEN [returned |-> "None", cmds |-> <<>>]
        ELSE IF staking_strategy = "bsp"
        THEN [returned |-> "None",
              cmds |-> PlaceBspBets(active[1], book.runners[active[1]].back,
                                    book.runners[active[1]].lay, race_probability[1])]
        ELSE [returned |-> "None",
              cmds |-> Flatten([k \in DOMAIN active |->
                                   RunnerCommands(book, active[k], race_probability[k])])]

(***************************************************************************)
(* process_closed_market.  Amounts of the ledger are in ten thousandths of *)
(* a currency unit, which is what a matched size (cents) times a price     *)
(* (cents) is; the commission and the net result are exact fractions.      *)
(***************************************************************************)
DefaultBaseRate == 5

\* The empty string '' as a declared market_base_rate.
EmptyString == -3

OrderPnl_LoserLaySign(runner_status, order) ==
    IF runner_status = "WINNER"
    THEN IF order.side = "BACK"
         THEN <<order.size_matched * (order.price - 100), 0>>
         ELSE <<0, 0 - order.size_matched * (order.price - 100)>>
    ELSE IF runner_status = "LOSER"
    THEN IF order.side = "BACK"
         THEN <<0 - order.size_matched * 100, 0>>
         ELSE <<0, 0 - order.size_matched * 100>>
    ELSE <<0, 0>>

\* The contribution of one order to <<market_back_pnl, market_lay_pnl>>.
OrderPnl(runner_status, order) ==
    IF runner_status = "WINNER"
    THEN IF order.side = "BACK"
         THEN <<order.size_matched * (order.price - 100), 0>>
         ELSE <<0, 0 - order.size_matched * (order.price - 100)>>
    ELSE IF runner_status = "LOSER"
    THEN IF order.side = "BACK"
         THEN <<0 - order.size_matched * 100, 0>>
         ELSE <<0, order.size_matched * 100>>
    ELSE <<0, 0>>

RECURSIVE OrdersPnl(_, _)
OrdersPnl(runner_status, selection_orders) ==
    IF selection_orders = <<>> THEN <<0, 0>>
    ELSE LET h == OrderPnl(runner_status, Head(selection_orders))
             t == OrdersPnl(runner_status, Tail(selection_orders))
         IN  <<h[1] + t[1], h[2] + t[2]>>

RECURSIVE RunnersPnl(_, _, _)
RunnersPnl(book, b, k) ==
    IF k = 0 THEN <<0, 0>>
    ELSE LET h == OrdersPnl(book.runners[k].status, b[k])
             t == RunnersPnl(book, b, k - 1)
         IN  <<h[1] + t[1], h[2] + t[2]>>

Ledger(book, b) ==
    LET sums == RunnersPnl(book, b, Len(book.runners))
        total == sums[1] + sums[2]
        market_base_rate == IF book.market_base_rate \in {None, 0, EmptyString}
                            THEN DefaultBaseRate ELSE book.market_base_rate
        market_commission == IF total > 0 THEN Frac(total * market_base_rate, 100)
                             ELSE Frac(0, 1)
    IN  [market_back_pnl |-> sums[1], market_lay_pnl |-> sums[2],
         total |-> total, market_commission |-> market_commission,
         market_pnl |-> Frac(total * market_commission.d - market_commission.n,
                             market_commission.d)]

(***************************************************************************)
(* The strategy on one market: the framework delivers snapshots, runs      *)
(* check_market_book and, if it returns True, process_market_book; the     *)
(* order stream reports matches and replacements and the                   *)
(* framework then runs process_orders; the closing snapshot runs           *)
(* process_closed_market.  Updates of one market are delivered one after   *)
(* the other.                                                              *)
(***************************************************************************)
Stakes == {1000}

Init ==
    /\ staking_strategy \in {"take", "offer", "bsp"}
    /\ stake \in Stakes
    /\ margin = DefaultMargin
    /\ min_back_price = DefaultMinPrice /\ max_back_price = DefaultMaxPrice
    /\ min_lay_price = DefaultMinPrice /\ max_lay_price = DefaultMaxPrice
    /\ seconds_to_start = DefaultSecondsToStart
    /\ market_probabilities = EmptyDict
    /\ stores = {}
    /\ market_book = NoBook
    /\ blotter = [s \in Runners |-> <<>>]
    /\ trade_count = [s \in Runners |-> 0]
    /\ commands = <<>>
    /\ result = NoResult
    /\ IdleThreads
    /\ call = NoCall

MarketOpen == IF market_book = NoBook THEN TRUE ELSE market_book.status # "CLOSED"

\* A snapshot that check_market_book lets through is processed.
ProcessMarketBook ==
    /\ MarketOpen
    /\ \E book \in MarketBooks :
          /\ Follows(book, market_book)
          /\ CheckMarketBook(book)
          /\ \E draws \in (IF book.market_id \in DOMAIN market_probabilities
                           THEN {<<>>} ELSE Draws(book.number_of_active_runners)) :
                LET dict == GenerateProbabilities(market_probabilities,
                                                  book.market_id, draws)
                    outcome == ProcessOutcome(book, dict[book.market_id])
                IN  /\ market_probabilities' = dict
                    /\ stores' = stores \cup
                          {<<m, dict[m]>> : m \in {m \in DOMAIN dict :
                               m \notin DOMAIN market_probabilities
                               \/ dict[m] # market_probabilities[m]}}
                    /\ market_book' = book
                    /\ commands' = outcome.cmds
                    /\ blotter' = ApplyCommands(blotter, outcome.cmds)
                    /\ trade_count' = CountTrades(trade_count, outcome.cmds)
                    /\ result' = [handler |-> "process_market_book",
                                  returned |-> outcome.returned]
    /\ UNCHANGED <<cfgVars, thrVars, call>>

\* A snapshot that check_market_book rejects reaches no other handler.
SkipMarketBook ==
    /\ MarketOpen
    /\ \E book \in MarketBooks :
          /\ Follows(book, market_book)
          /\ ~CheckMarketBook(book)
          /\ market_book' = book
    /\ commands' = <<>>
    /\ result' = [handler |-> "check_market_book", returned |-> "False"]
    /\ UNCHANGED <<cfgVars, cacheVars, blotter, trade_count, thrVars, call>>

\* process_orders (lines 193 to 195): returns None for a market and a list.
ProcessOrders ==
    /\ commands' = <<>>
    /\ result' = [handler |-> "process_orders", returned |-> "None"]

\* An executable limit order was matched in full.
OrderMatched ==
    /\ MarketOpen
    /\ \E s \in Runners : \E j \in DOMAIN blotter[s] :
          /\ blotter[s][j].status = "EXECUTABLE"
          /\ blotter[s][j].order_type = "LIMIT"
          /\ blotter' = [blotter EXCEPT ![s][j].status = "EXECUTION_COMPLETE",
                                        ![s][j].size_matched = blotter[s][j].size]
    /\ ProcessOrders
    /\ UNCHANGED <<cfgVars, cacheVars, market_book, trade_count, thrVars, call>>

\* The exchange replaced an order: the old one is complete, a new order of
\* the same side and size rests at the new price.
OrderReplaced ==
    /\ MarketOpen
    /\ \E s \in Runners : \E j \in DOMAIN blotter[s] :
          /\ blotter[s][j].status = "REPLACING"
          /\ blotter' = [blotter EXCEPT ![s] =
                Append([@ EXCEPT ![j].status = "EXECUTION_COMPLETE",
                                 ![j].new_price = None],
                       [blotter[s][j] EXCEPT !.status = "EXECUTABLE",
                                             !.price = blotter[s][j].new_price,
                                             !.new_price = None])]
    /\ ProcessOrders
    /\ UNCHANGED <<cfgVars, cacheVars, market_book, trade_count, thrVars, call>>

\* The closing snapshot: one active runner wins, the others lose.
ProcessClosedMarket ==
    /\ market_book # NoBook
    /\ market_book.status # "CLOSED"
    /\ \E winner \in DOMAIN market_book.runners :
          /\ market_book.runners[winner].status = "ACTIVE"
          /\ LET book == [market_book EXCEPT
                    !.status = "CLOSED",
                    !.number_of_active_runners = 0,
                    !.runners = [i \in DOMAIN market_book.runners |->
                        [market_book.runners[i] EXCEPT !.status =
                            IF i = winner THEN "WINNER"
                            ELSE IF @ = "ACTIVE" THEN "LOSER" ELSE @]]]
             IN  /\ market_book' = book
                 /\ result' = [handler |-> "process_closed_market",
                               returned |-> "None", ledger |-> Ledger(book, blotter)]
    /\ commands' = <<>>
    /\ UNCHANGED <<cfgVars, cacheVars, blotter, trade_count, thrVars, call>>

Next ==
    \/ ProcessMarketBook
    \/ SkipMarketBook
    \/ OrderMatched
    \/ OrderReplaced
    \/ ProcessClosedMarket

Spec == Init /\ [][Next]_vars

(***************************************************************************)
(* Properties of the strategy on one market.                               *)
(***************************************************************************)
TakeOrOffer == staking_strategy \in {"take", "offer"}

\* The vector passes the checks of lines 106 to 122 for this snapshot.
Validated(book, race_probability) ==
    /\ Len(race_probability) = book.number_of_active_runners
    /\ \A k \in DOMAIN race_probability : ~Invalid(race_probability[k])

\* C2: once a vector is stored for a market id it stays the entry of that
\* id, unchanged, through every step of the strategy (process_market_book
\* with any number of active runners, process_orders,
\* process_closed_market), it is stored once only, and it is the vector
\* every later update works with.
C2_CacheEntryKept ==
    [][/\ \A m \in DOMAIN market_probabilities :
              /\ m \in DOMAIN market_probabilities'
              /\ market_probabilities'[m] = market_probabilities[m]
       /\ \A m \in DOMAIN market_probabilities' :
              Cardinality({s \in stores' : s[1] = m}) = 1]_vars

\* A later update called _generate_probabilities when the number of active
\* runners differed from the length of the vector stored earlier, under
\* which orders had been placed.
C2_Witness ==
    /\ TheMarket \in DOMAIN market_probabilities
    /\ result.handler = "process_market_book"
    /\ market_book.number_of_active_runners # Len(market_probabilities[TheMarket])
    /\ \E s \in Runners : blotter[s] # <<>>

Candidate(side, book, selection_id, runner_probability) ==
    IF side = "BACK"
    THEN GetBackPrice(runner_probability, book.runners[selection_id].lay,
                      book.runners[selection_id].back)
    ELSE GetLayPrice(runner_probability, book.runners[selection_id].lay,
                     book.runners[selection_id].back)

\* The positions in cmds of the replace_order commands for one order.
ReplacesOf(cmds, selection_id, j) ==
    {i \in DOMAIN cmds : /\ cmds[i].op = "replace_order"
                         /\ cmds[i].selection_id = selection_id
                         /\ cmds[i].order = j}

\* The positions in cmds of the place_order commands for one runner and side.
PlacesOn(cmds, selection_id, side) ==
    {i \in DOMAIN cmds : /\ cmds[i].op = "place_order"
                         /\ cmds[i].selection_id = selection_id
                         /\ cmds[i].side = side}

\* C5: in take/offer mode, an update that passes validation raises no
\* error and, for every active runner and every executable order of the
\* runner, issues one replace at the candidate price of the order's side
\* if the candidate exists and is strictly lower (back) or strictly higher
\* (lay) than the order's price, and otherwise issues no replace for the
\* order and leaves it as it was.
C5_ReplaceExactlyWhenBetter ==
    [][(/\ result'.handler = "process_market_book"
        /\ TakeOrOffer
        /\ Validated(market_book', market_probabilities'[TheMarket]))
       =>
       /\ result'.returned = "None"
       /\ LET active == ActiveRunners(market_book')
          IN  \A k \in DOMAIN active : \A j \in DOMAIN blotter[active[k]] :
                 LET selection_id == active[k]
                     order == blotter[selection_id][j]
                     candidate == Candidate(order.side, market_book', selection_id,
                                            market_probabilities'[TheMarket][k])
                     replaces == ReplacesOf(commands', selection_id, j)
                 IN  order.status = "EXECUTABLE" =>
                        IF /\ candidate # None
                           /\ IF order.side = "BACK" THEN candidate < order.price
                              ELSE candidate > order.price
                        THEN /\ Cardinality(replaces) = 1
                             /\ \A i \in replaces : commands'[i].price = candidate
                             /\ blotter'[selection_id][j] =
                                   [order EXCEPT !.status = "REPLACING",
                                                 !.new_price = candidate]
                        ELSE /\ replaces = {}
                             /\ blotter'[selection_id][j] = order]_vars

\* One update replaced a back order at a lower price and left a lay order
\* alone, or the other way round.
C5_Witness ==
    /\ TakeOrOffer
    /\ result = [handler |-> "process_market_book", returned |-> "None"]
    /\ \E i \in DOMAIN commands :
          /\ commands[i].op = "replace_order"
          /\ LET selection_orders == blotter[commands[i].selection_id]
             IN  /\ selection_orders[commands[i].order].status = "REPLACING"
                 /\ \E j \in DOMAIN selection_orders :
                       /\ selection_orders[j].status = "EXECUTABLE"
                       /\ selection_orders[j].side # commands[i].side
                       /\ ReplacesOf(commands, commands[i].selection_id, j) = {}

\* C6: in take/offer mode, an update that passes validation places, for
\* every active runner and each side on which the runner has no order of
\* the strategy, exactly one limit order at the candidate price with size
\* stake if the side has a candidate, and nothing on that side if it has
\* none; the order then rests in the blotter.
C6_PlaceOnEveryRunner ==
    [][(/\ result'.handler = "process_market_book"
        /\ TakeOrOffer
        /\ Validated(market_book', market_probabilities'[TheMarket]))
       =>
       LET active == ActiveRunners(market_book')
       IN  \A k \in DOMAIN active : \A side \in {"BACK", "LAY"} :
              LET selection_id == active[k]
                  candidate == Candidate(side, market_book', selection_id,
                                         market_probabilities'[TheMarket][k])
                  places == PlacesOn(commands', selection_id, side)
              IN  (\A j \in DOMAIN blotter[selection_id] :
                      blotter[selection_id][j].side # side)
                  =>
                  IF candidate # None
                  THEN /\ Cardinality(places) = 1
                       /\ \A i \in places :
                             /\ commands'[i].order_type = "LIMIT"
                             /\ commands'[i].price = candidate
                             /\ commands'[i].size = stake
                       /\ Cardinality({j \in DOMAIN blotter'[selection_id] :
                             /\ blotter'[selection_id][j].side = side
                             /\ blotter'[selection_id][j].status = "EXECUTABLE"
                             /\ blotter'[selection_id][j].price = candidate
                             /\ blotter'[selection_id][j].size = stake}) = 1
                  ELSE /\ places = {}
                       /\ \A j \in DOMAIN blotter'[selection_id] :
                             blotter'[selection_id][j].side # side]_vars

\* One update placed an order for a runner after the first of the snapshot
\* and for the first one, and left a side without candidate empty.
C6_Witness ==
    /\ TakeOrOffer
    /\ result = [handler |-> "process_market_book", returned |-> "None"]
    /\ \E side \in {"BACK", "LAY"} : PlacesOn(commands, 1, side) # {}
    /\ \E selection_id \in Runners \ {1} : \E side \in {"BACK", "LAY"} :
          PlacesOn(commands, selection_id, side) # {}
    /\ \E k \in DOMAIN ActiveRunners(market_book) : \E side \in {"BACK", "LAY"} :
          LET selection_id == ActiveRunners(market_book)[k]
          IN  /\ Candidate(side, market_book, selection_id,
                           market_probabilities[TheMarket][k]) = None
              /\ \A j \in DOMAIN blotter[selection_id] :
                    blotter[selection_id][j].side # side

\* C7: in take/offer mode no order is placed on a side of a runner that has
\* an order of the strategy on that side, whatever the order's status; an
\* update places at most one order per runner and side; the blotter keeps
\* every order: so at most one order is placed per runner and side over
\* the updates of a market.
C7_NoSecondPlacement ==
    [][TakeOrOffer =>
       \A selection_id \in Runners : \A side \in {"BACK", "LAY"} :
          /\ result'.handler = "process_market_book"
                => Cardinality(PlacesOn(commands', selection_id, side)) <= 1
          /\ (\E j \in DOMAIN blotter[selection_id] :
                 blotter[selection_id][j].side = side)
             => /\ result'.handler = "process_market_book"
                      => PlacesOn(commands', selection_id, side) = {}
                /\ \E j \in DOMAIN blotter'[selection_id] :
                      blotter'[selection_id][j].side = side]_vars

\* An update found a side of a runner with a candidate price and with one
\* order only, matched in full, and placed nothing on that side.
C7_Witness ==
    /\ TakeOrOffer
    /\ result = [handler |-> "process_market_book", returned |-> "None"]
    /\ \E k \in DOMAIN ActiveRunners(market_book) : \E side \in {"BACK", "LAY"} :
          LET selection_id == ActiveRunners(market_book)[k]
              on_side == {j \in DOMAIN blotter[selection_id] :
                             blotter[selection_id][j].side = side}
          IN  /\ Candidate(side, market_book, selection_id,
                           market_probabilities[TheMarket][k]) # None
              /\ Cardinality(on_side) = 1
              /\ \A j \in on_side :
                    blotter[selection_id][j].status = "EXECUTION_COMPLETE"
              /\ PlacesOn(commands, selection_id, side) = {}

(***************************************************************************)
(* process_closed_market called on closed markets drawn from a bounded     *)
(* set: two runners, each a winner, a loser or removed, the orders of the  *)
(* strategy on them matched in full, in part or not at all, and every      *)
(* kind of declared base rate.                                             *)
(***************************************************************************)
MaxOrdersClosed == 2

BaseRates == {None, EmptyString, 0, 2, 7}

\* <<price, size_matched>> of the orders of a closed market (size 10.00).
ClosedFills == {<<200, 1000>>, <<350, 500>>, <<200, 0>>}

ClosedOrders ==
    {[NewOrder(PlaceLimit(1, side, fill[1], 1000)) EXCEPT
          !.size_matched = fill[2],
          !.status = IF fill[2] = 1000 THEN "EXECUTION_COMPLETE" ELSE "EXECUTABLE"] :
        side \in {"BACK", "LAY"}, fill \in ClosedFills}

OrdersUpTo(n) == UNION {[1..k -> ClosedOrders] : k \in 0..n}

ClosedBooks ==
    {[market_id |-> TheMarket, status |-> "CLOSED", inplay |-> TRUE,
      seconds_to_start |-> -10, market_base_rate |-> rate,
      number_of_active_runners |-> 0,
      runners |-> [i \in 1..2 |-> [status |-> statuses[i], back |-> None,
                                    lay |-> None]]] :
        rate \in BaseRates,
        statuses \in [1..2 -> {"WINNER", "LOSER", "REMOVED"}]}

InitClose ==
    /\ staking_strategy \in {"take"}
    /\ stake = 1000
    /\ margin = DefaultMargin
    /\ min_back_price = DefaultMinPrice /\ max_back_price = DefaultMaxPrice
    /\ min_lay_price = DefaultMinPrice /\ max_lay_price = DefaultMaxPrice
    /\ seconds_to_start = DefaultSecondsToStart
    /\ market_probabilities = EmptyDict
    /\ stores = {}
    /\ market_book \in ClosedBooks
    /\ \E first \in OrdersUpTo(MaxOrdersClosed) : \E second \in OrdersUpTo(1) :
          blotter = [s \in Runners |-> IF s = 1 THEN first
                                       ELSE IF s = 2 THEN second ELSE <<>>]
    /\ trade_count = [s \in Runners |-> IF blotter[s] = <<>> THEN 0 ELSE 1]
    /\ commands = <<>>
    /\ result = NoResult
    /\ IdleThreads
    /\ call = NoCall

\* The framework hands the closed market to process_closed_market.
CallProcessClosedMarket ==
    /\ result = NoResult
    /\ market_book.status = "CLOSED"
    /\ result' = [handler |-> "process_closed_market", returned |-> "None",
                  ledger |-> Ledger(market_book, blotter)]
    /\ UNCHANGED <<cfgVars, cacheVars, market_book, blotter, trade_count,
                   commands, thrVars, call>>

NextClose == CallProcessClosedMarket

SpecClose == InitClose /\ [][NextClose]_vars

\* The sum of the values of a function with a finite domain.
RECURSIVE SumOf(_)
SumOf(f) ==
    IF DOMAIN f = {} THEN 0
    ELSE LET x == CHOOSE x \in DOMAIN f : TRUE
         IN  f[x] + SumOf([y \in DOMAIN f \ {x} |-> f[y]])

\* The orders of the strategy on the runners of the book: <<runner, position>>.
OrdersOfBook ==
    {p \in (DOMAIN market_book.runners) \X (1..(MaxOrdersClosed + 1)) :
        p[2] \in DOMAIN blotter[p[1]]}

\* C11: the ledger's back PnL is the sum over the back orders of
\* matched * (price - 1) on a winner and -matched on a loser, its lay PnL
\* the sum over the lay orders of -matched * (price - 1) on a winner and
\* +matched on a loser, orders on other runners count nothing, and the
\* total is back PnL + lay PnL.
C11_Ledger ==
    result.handler = "process_closed_market" =>
        LET Won(p) == market_book.runners[p[1]].status = "WINNER"
            Lost(p) == market_book.runners[p[1]].status = "LOSER"
            Profit(p) == blotter[p[1]][p[2]].size_matched
                            * (blotter[p[1]][p[2]].price - 100)
            Matched(p) == blotter[p[1]][p[2]].size_matched * 100
            backs == {p \in OrdersOfBook : blotter[p[1]][p[2]].side = "BACK"}
            lays == {p \in OrdersOfBook : blotter[p[1]][p[2]].side = "LAY"}
            back_pnl == SumOf([p \in backs |->
                            IF Won(p) THEN Profit(p)
                            ELSE IF Lost(p) THEN 0 - Matched(p) ELSE 0])
            lay_pnl == SumOf([p \in lays |->
                            IF Won(p) THEN 0 - Profit(p)
                            ELSE IF Lost(p) THEN Matched(p) ELSE 0])
        IN  /\ result.ledger.market_back_pnl = back_pnl
            /\ result.ledger.market_lay_pnl = lay_pnl
            /\ result.ledger.total = back_pnl + lay_pnl

\* A market closed with matched back and lay orders on its winner and on
\* its loser.
C11_Witness ==
    /\ result.handler = "process_closed_market"
    /\ \E w \in DOMAIN market_book.runners : \E l \in DOMAIN market_book.runners :
          /\ market_book.runners[w].status = "WINNER"
          /\ market_book.runners[l].status = "LOSER"
          /\ \E j \in DOMAIN blotter[w] :
                blotter[w][j].side = "BACK" /\ blotter[w][j].size_matched > 0
          /\ \E j \in DOMAIN blotter[w] :
                blotter[w][j].side = "LAY" /\ blotter[w][j].size_matched > 0
          /\ \E j \in DOMAIN blotter[l] : blotter[l][j].size_matched > 0
    /\ result.ledger.market_back_pnl # 0
    /\ result.ledger.market_lay_pnl # 0

\* C12: if total PnL > 0 the commission is total * rate / 100 and the net
\* PnL is total - commission, with the declared rate whenever it is a
\* number and 5 only when it is absent, null or empty; if total PnL <= 0
\* the commission is 0 and the net PnL is the total.
C12_Commission ==
    result.handler = "process_closed_market" =>
        LET total == result.ledger.total
            declared == market_book.market_base_rate
            rate == IF declared \in {None, EmptyString} THEN DefaultBaseRate
                    ELSE declared
            commission == result.ledger.market_commission
            net == result.ledger.market_pnl
        IN  /\ net.d = commission.d
            /\ net.n = total * commission.d - commission.n
            /\ IF total > 0
               THEN commission.n * 100 = total * rate * commission.d
               ELSE commission.n = 0

(***************************************************************************)
(* The first snapshot of a market, drawn from a wide set: absent, of any   *)
(* status, in play or not, with 0 to MaxRunners active runners and at      *)
(* several times to the start.  The framework calls check_market_book and  *)
(* calls process_market_book if and only if it returned True.              *)
(***************************************************************************)
MaxRunners == 9

LongSecondsToStart == 120

CheckBooks ==
    {[market_id |-> TheMarket, status |-> status, inplay |-> inplay,
      seconds_to_start |-> seconds, market_base_rate |-> None,
      number_of_active_runners |-> n,
      runners |-> [i \in 1..n |-> ActiveRunnerBook(QuietPair)]] :
        status \in {"OPEN", "SUSPENDED", "CLOSED"}, inplay \in BOOLEAN,
        seconds \in {-10, DefaultSecondsToStart, DefaultSecondsToStart + 1,
                     LongSecondsToStart, LongSecondsToStart + 1},
        n \in 0..MaxRunners}
    \cup {NoBook}

InitCheck ==
    /\ staking_strategy \in {"take", "offer"}
    /\ stake = 1000
    /\ margin = DefaultMargin
    /\ min_back_price = DefaultMinPrice /\ max_back_price = DefaultMaxPrice
    /\ min_lay_price = DefaultMinPrice /\ max_lay_price = DefaultMaxPrice
    /\ seconds_to_start \in {DefaultSecondsToStart, LongSecondsToStart}
    /\ market_probabilities = EmptyDict
    /\ stores = {}
    /\ market_book = NoBook
    /\ blotter = [s \in 1..MaxRunners |-> <<>>]
    /\ trade_count = [s \in 1..MaxRunners |-> 0]
    /\ commands = <<>>
    /\ result = NoResult
    /\ IdleThreads
    /\ call = NoCall

DeliverMarketBook ==
    /\ result = NoResult
    /\ \E book \in CheckBooks :
          /\ market_book' = book
          /\ IF CheckMarketBook(book)
             THEN \E draws \in Draws(book.number_of_active_runners) :
                     LET dict == GenerateProbabilities(market_probabilities,
                                                       book.market_id, draws)
                         outcome == ProcessOutcome(book, dict[book.market_id])
                     IN  /\ market_probabilities' = dict
                         /\ stores' = {<<book.market_id, dict[book.market_id]>>}
                         /\ commands' = outcome.cmds
                         /\ blotter' = ApplyCommands(blotter, outcome.cmds)
                         /\ trade_count' = CountTrades(trade_count, outcome.cmds)
                         /\ result' = [handler |-> "process_market_book",
                                       returned |-> outcome.returned]
             ELSE /\ result' = [handler |-> "check_market_book",
                                returned |-> "False"]
                  /\ UNCHANGED <<cacheVars, commands, blotter, trade_count>>
    /\ UNCHANGED <<cfgVars, thrVars, call>>

NextCheck == DeliverMarketBook

SpecCheck == InitCheck /\ [][NextCheck]_vars

\* C13: check_market_book returns True, and process_market_book runs,
\* exactly when the snapshot is present, OPEN, not in play, has 2 to 8
\* active runners and is at most seconds_to_start from the start; no
\* command is issued for any other snapshot.
C13_CheckMarketBook ==
    result # NoResult =>
        LET accepted ==
                IF market_book = NoBook THEN FALSE
                ELSE /\ market_book.status = "OPEN"
                     /\ ~market_book.inplay
                     /\ market_book.number_of_active_runners \in 2..8
                     /\ market_book.seconds_to_start <= seconds_to_start
        IN  /\ result.handler = "process_market_book" <=> accepted
            /\ result.handler = "check_market_book" <=> ~accepted
            /\ ~accepted => /\ commands = <<>>
                            /\ \A s \in DOMAIN blotter : blotter[s] = <<>>

\* A snapshot of eight active runners, exactly seconds_to_start before the
\* start, was let through and orders were placed on it.
C13_Witness ==
    /\ result.handler = "process_market_book"
    /\ market_book.number_of_active_runners = 8
    /\ market_book.seconds_to_start = seconds_to_start
    /\ commands # <<>>

(***************************************************************************)
(* A market of three runners whose first processed snapshot had no back    *)
(* prices: the vector is stored, nothing is placed.  Liquidity arrives     *)
(* afterwards, at steady prices, and runners may be removed.               *)
(***************************************************************************)
FirstBooks ==
    {book \in {Book(<<"OPEN", FALSE, 30>>, runners) :
                  runners \in [1..3 -> {ActiveRunnerBook(<<None, 210>>),
                                        RemovedRunnerBook}]} :
        book.number_of_active_runners >= 2}

InitStale ==
    /\ staking_strategy \in {"take", "offer"}
    /\ stake \in Stakes
    /\ margin = DefaultMargin
    /\ min_back_price = DefaultMinPrice /\ max_back_price = DefaultMaxPrice
    /\ min_lay_price = DefaultMinPrice /\ max_lay_price = DefaultMaxPrice
    /\ seconds_to_start = DefaultSecondsToStart
    /\ market_book \in FirstBooks
    /\ \E draws \in Draws(market_book.number_of_active_runners) :
          market_probabilities =
             GenerateProbabilities(EmptyDict, market_book.market_id, draws)
    /\ stores = {<<TheMarket, market_probabilities[TheMarket]>>}
    /\ commands = <<>>
    /\ blotter = [s \in Runners |-> <<>>]
    /\ trade_count = [s \in Runners |-> 0]
    /\ result = [handler |-> "process_market_book",
                 returned |-> IF \E k \in DOMAIN market_probabilities[TheMarket] :
                                     Invalid(market_probabilities[TheMarket][k])
                              THEN "NameError" ELSE "None"]
    /\ IdleThreads
    /\ call = NoCall

NextStale ==
    \/ ProcessMarketBook
    \/ SkipMarketBook
    \/ OrderMatched
    \/ ProcessClosedMarket

SpecStale == InitStale /\ [][NextStale]_vars

\* C14: an update whose number of active runners differs from the length
\* of the stored vector returns False and issues no command, so the
\* blotter and the trade counts stay as they were; this holds for every
\* such update of the market.
C14_StaleVectorSkips ==
    [][(/\ result'.handler = "process_market_book"
        /\ Len(market_probabilities'[TheMarket])
              # market_book'.number_of_active_runners)
       => /\ result'.returned = "False"
          /\ commands' = <<>>
          /\ blotter' = blotter
          /\ trade_count' = trade_count]_vars

\* An update was skipped for a stale vector although an active runner
\* without orders had a candidate price at its position of the vector.
C14_Witness ==
    /\ result = [handler |-> "process_market_book", returned |-> "False"]
    /\ Len(market_probabilities[TheMarket]) = 3
    /\ market_book.number_of_active_runners = 2
    /\ commands = <<>>
    /\ \E k \in DOMAIN ActiveRunners(market_book) :
          LET selection_id == ActiveRunners(market_book)[k]
          IN  /\ blotter[selection_id] = <<>>
              /\ ~Invalid(market_probabilities[TheMarket][k])
              /\ \E side \in {"BACK", "LAY"} :
                    Candidate(side, market_book, selection_id,
                              market_probabilities[TheMarket][k]) # None

\* C15: an update in which the probability of some active runner is NaN
\* or zero does not complete and issues no command for any runner: the
\* blotter and the trade counts stay as they were.
C15_InvalidProbabilityAborts ==
    [][(/\ result'.handler = "process_market_book"
        /\ Len(market_probabilities'[TheMarket])
              = market_book'.number_of_active_runners
        /\ \E k \in DOMAIN market_probabilities'[TheMarket] :
              Invalid(market_probabilities'[TheMarket][k]))
       => /\ result'.returned # "None"
          /\ commands' = <<>>
          /\ blotter' = blotter
          /\ trade_count' = trade_count]_vars

\* An update was aborted for a zero probability of a later runner while
\* the first active runner had a valid probability and a candidate price.
C15_Witness ==
    /\ TakeOrOffer
    /\ result.handler = "process_market_book"
    /\ result.returned # "None"
    /\ commands = <<>>
    /\ LET race_probability == market_probabilities[TheMarket]
           first == ActiveRunners(market_book)[1]
       IN  /\ Len(race_probability) = market_book.number_of_active_runners
           /\ ~Invalid(race_probability[1])
           /\ \E k \in DOMAIN race_probability :
                 ~IsNan(race_probability[k]) /\ race_probability[k].n = 0
           /\ \E side \in {"BACK", "LAY"} :
                 Candidate(side, market_book, first, race_probability[1]) # None
           /\ blotter[first] = <<>>

\* C16: the vector a thread has just generated (line 39) sums to 1 and
\* has every entry in (0, 1], whatever the draws were.
C16_FreshVector ==
    \A t \in DOMAIN pc :
        pc[t] = "line40" =>
            LET probabilities == local[t].probabilities
            IN  /\ \A i \in DOMAIN probabilities :
                      /\ probabilities[i].d > 0
                      /\ 0 < probabilities[i].n
                      /\ probabilities[i].n <= probabilities[i].d
                /\ \A i \in DOMAIN probabilities :
                      SumOf([k \in DOMAIN probabilities |-> probabilities[k].n])
                         = probabilities[i].d

(***************************************************************************)
(* The strategy on one market when the RunnerContext trade counts of the   *)
(* framework are not all zero at the first update.  In bsp mode every      *)
(* update then places again, so updates stop at MaxOrders orders a runner. *)
(***************************************************************************)
MaxOrders == 4

InitModes ==
    /\ staking_strategy \in {"take", "offer", "bsp"}
    /\ stake \in Stakes
    /\ margin = DefaultMargin
    /\ min_back_price = DefaultMinPrice /\ max_back_price = DefaultMaxPrice
    /\ min_lay_price = DefaultMinPrice /\ max_lay_price = DefaultMaxPrice
    /\ seconds_to_start = DefaultSecondsToStart
    /\ market_probabilities = EmptyDict
    /\ stores = {}
    /\ market_book = NoBook
    /\ blotter = [s \in Runners |-> <<>>]
    /\ trade_count \in {[s \in Runners |-> 0], [s \in Runners |-> MaxTradeCount]}
    /\ commands = <<>>
    /\ result = NoResult
    /\ IdleThreads
    /\ call = NoCall

BoundedProcessMarketBook ==
    /\ \A s \in Runners : Len(blotter[s]) < MaxOrders
    /\ ProcessMarketBook

NextModes ==
    \/ BoundedProcessMarketBook
    \/ SkipMarketBook
    \/ OrderMatched
    \/ OrderReplaced
    \/ ProcessClosedMarket

SpecModes == InitModes /\ [][NextModes]_vars

\* C17: in bsp mode every command is the placement of a limit-on-close
\* order and no order is ever a plain limit order or being replaced; in
\* take or offer mode every command places or replaces a plain limit
\* order, and the placements do not depend on the trade count: a side
\* without order and with a candidate gets its order whether the runner's
\* trade count is zero or not.
C17_ModesExclusive ==
    [][/\ staking_strategy = "bsp" =>
            /\ \A i \in DOMAIN commands' :
                  /\ commands'[i].op = "place_order"
                  /\ commands'[i].order_type = "LIMIT_ON_CLOSE"
            /\ \A s \in Runners : \A j \in DOMAIN blotter'[s] :
                  /\ blotter'[s][j].order_type = "LIMIT_ON_CLOSE"
                  /\ blotter'[s][j].status # "REPLACING"
       /\ TakeOrOffer =>
            /\ \A i \in DOMAIN commands' : commands'[i].order_type = "LIMIT"
            /\ \A s \in Runners : \A j \in DOMAIN blotter'[s] :
                  blotter'[s][j].order_type = "LIMIT"
            /\ (/\ result'.handler = "process_market_book"
                /\ Validated(market_book', market_probabilities'[TheMarket]))
               => LET active == ActiveRunners(market_book')
                  IN  \A k \in DOMAIN active : \A side \in {"BACK", "LAY"} :
                         (/\ \A j \in DOMAIN blotter[active[k]] :
                                blotter[active[k]][j].side # side
                          /\ Candidate(side, market_book', active[k],
                                       market_probabilities'[TheMarket][k]) # None)
                         => PlacesOn(commands', active[k], side) # {}]_vars

\* A bsp update placed limit-on-close orders, for a runner that already
\* had some.
C17_Witness ==
    /\ staking_strategy = "bsp"
    /\ result = [handler |-> "process_market_book", returned |-> "None"]
    /\ commands # <<>>
    /\ \E s \in Runners : Len(blotter[s]) > Len(commands)

\* C20: in bsp mode an update issues commands for the first active runner
\* of the snapshot only; the orders of every other runner stay as they
\* were.
C20_BspFirstRunnerOnly ==
    [][(staking_strategy = "bsp" /\ result'.handler = "process_market_book")
       => LET active == ActiveRunners(market_book')
          IN  /\ \A i \in DOMAIN commands' : commands'[i].selection_id = active[1]
              /\ \A s \in Runners \ {active[1]} :
                    blotter'[s] = blotter[s] /\ trade_count'[s] = trade_count[s]]_vars

\* A bsp update placed orders for the first active runner and none for a
\* later one that had both prices, a non-zero trade count and limit ticks
\* inside the configured bounds.
C20_Witness ==
    /\ staking_strategy = "bsp"
    /\ result = [handler |-> "process_market_book", returned |-> "None"]
    /\ commands # <<>>
    /\ LET active == ActiveRunners(market_book)
       IN  \E k \in DOMAIN active :
              LET runner == market_book.runners[active[k]]
                  runner_probability == market_probabilities[TheMarket][k]
                  back_tick == GetNearestPrice(BackPriceEv(runner_probability))
              IN  /\ k > 1
                  /\ runner.back # None /\ runner.lay # None
                  /\ trade_count[active[k]] > 0
                  /\ min_back_price <= back_tick /\ back_tick <= max_back_price
                  /\ blotter[active[k]] = <<>>

(***************************************************************************)
(* historical_files_parser.parse_market_files.  A market file is its       *)
(* place in the tree (year, month, day) and the marketDefinition of its    *)
(* first line; a name is the sequence of its words.  A path is the         *)
(* position of the file in FileUniverse, which lists the files in the      *)
(* order of the walk.                                                      *)
(***************************************************************************)
FileUniverse ==
    << [year |-> "2020", month |-> "Aug", day |-> "2",
        definition |-> [name |-> <<"R1", "1200m", "Hcap">>,
                        bettingType |-> "ODDS", marketType |-> "WIN"]],
       [year |-> "2020", month |-> "Aug", day |-> "2",
        definition |-> [name |-> <<"R1", "1200m", "Hcap">>,
                        bettingType |-> "ODDS", marketType |-> "PLACE"]],
       [year |-> "2020", month |-> "Sep", day |-> "2",
        definition |-> [name |-> <<"R4", "2138m", "Trot">>,
                        bettingType |-> "ODDS", marketType |-> "WIN"]],
       [year |-> "2021", month |-> "Aug", day |-> "3",
        definition |-> [name |-> <<"R2", "1609m", "Pace">>,
                        bettingType |-> "ODDS", marketType |-> "WIN"]],
       [year |-> "2021", month |-> "Aug", day |-> "3",
        definition |-> [name |-> <<"R3", "1000m", "Mdn">>,
                        bettingType |-> "ODDS", marketType |-> "WIN"]] >>

\* market_definition_filters: {} and dicts of one and two keys.
FilterSets ==
    {EmptyDict,
     [k \in {"marketType"} |-> "WIN"],
     [k \in {"marketType"} |-> "PLACE"],
     [k \in {"bettingType", "marketType"} |->
         IF k = "bettingType" THEN "ODDS" ELSE "WIN"]}

\* include_years, include_months, include_days: None is the empty set.
IncludeYears == {{}, {"2020"}}

IncludeMonths == {{}, {"Aug"}}

IncludeDays == {{}, {"2", "3"}}

\* word in name
Contains(name, word) == \E i \in DOMAIN name : name[i] = word

\* if include_x: xs = list(set(xs) & set(include_x))
Included(include, value) == IF include = {} THEN TRUE ELSE value \in include

\* _filter_market_file: True when the file is to be left out.
FilterMarketFile(market_definition, market_definition_filters) ==
    IF DOMAIN market_definition_filters # {}
    THEN IF Contains(market_definition.name, "Trot")
            \/ Contains(market_definition.name, "Pace")
         THEN TRUE
         ELSE \E k \in DOMAIN market_definition_filters :
                 market_definition[k] # market_definition_filters[k]
    ELSE FALSE

\* parse_market_files over the files present in the tree: the paths
\* returned, the files deleted, the error raised.
ParseMarketFiles(present, market_definition_filters, include_years, include_months, include_days, delete_files) ==
    LET walked == SelectSeq([i \in 1..Len(FileUniverse) |-> i],
                      LAMBDA i : /\ i \in present
                                 /\ Included(include_years, FileUniverse[i].year)
                                 /\ Included(include_months, FileUniverse[i].month)
                                 /\ Included(include_days, FileUniverse[i].day))
        Filtered(i) == FilterMarketFile(FileUniverse[i].definition,
                                        market_definition_filters)
        files == SelectSeq(walked, LAMBDA i : ~Filtered(i))
    IN  [files |-> files,
         decompressed |-> {walked[k] : k \in DOMAIN walked},
         deleted |-> IF delete_files
                     THEN {walked[k] : k \in {k \in DOMAIN walked : Filtered(walked[k])}}
                     ELSE {},
         raised |-> IF Len(files) = 0 THEN "FileNotFoundError" ELSE "none"]

InitParse ==
    /\ staking_strategy = "take"
    /\ stake = 1000
    /\ margin = DefaultMargin
    /\ min_back_price = DefaultMinPrice /\ max_back_price = DefaultMaxPrice
    /\ min_lay_price = DefaultMinPrice /\ max_lay_price = DefaultMaxPrice
    /\ seconds_to_start = DefaultSecondsToStart
    /\ market_probabilities = EmptyDict
    /\ stores = {}
    /\ IdleMarket
    /\ IdleThreads
    /\ call = NoCall

CallParseMarketFiles ==
    /\ call = NoCall
    /\ \E present \in SUBSET (1..Len(FileUniverse)),
          market_definition_filters \in FilterSets,
          include_years \in IncludeYears, include_months \in IncludeMonths,
          include_days \in IncludeDays, delete_files \in BOOLEAN :
          call' = [fn |-> "parse_market_files", present |-> present,
                   market_definition_filters |-> market_definition_filters,
                   delete_files |-> delete_files,
                   result |-> ParseMarketFiles(present, market_definition_filters,
                                 include_years, include_months, include_days,
                                 delete_files)]
    /\ UNCHANGED <<cfgVars, cacheVars, mktVars, thrVars>>

NextParse == CallParseMarketFiles

SpecParse == InitParse /\ [][NextParse]_vars

\* C18: no file whose market-definition name contains "Trot" or "Pace" is
\* in the list parse_market_files returns, whatever the filters are.
C18_HarnessExcluded ==
    call.fn = "parse_market_files" =>
        \A k \in DOMAIN call.result.files :
            LET name == FileUniverse[call.result.files[k]].definition.name
            IN  ~Contains(name, "Trot") /\ ~Contains(name, "Pace")

(***************************************************************************)
(* A market of two runners whose first processed snapshot showed 2.20 to   *)
(* back and 3.00 to lay on both: the orders of that update rest in the     *)
(* blotter, and the prices then move down through the snapshots of         *)
(* MarketBooks, so that an order can be replaced more than once.           *)
(***************************************************************************)
LadderPair == <<220, 300>>

LadderBook ==
    Book(<<"OPEN", FALSE, 30>>, [i \in 1..2 |-> ActiveRunnerBook(LadderPair)])

InitLadder ==
    /\ staking_strategy \in {"take", "offer"}
    /\ stake \in Stakes
    /\ margin = DefaultMargin
    /\ min_back_price = DefaultMinPrice /\ max_back_price = DefaultMaxPrice
    /\ min_lay_price = DefaultMinPrice /\ max_lay_price = DefaultMaxPrice
    /\ seconds_to_start = DefaultSecondsToStart
    /\ market_book = LadderBook
    /\ \E draws \in Draws(market_book.number_of_active_runners) :
          market_probabilities =
             GenerateProbabilities(EmptyDict, market_book.market_id, draws)
    /\ stores = {<<TheMarket, market_probabilities[TheMarket]>>}
    /\ commands =
          IF Validated(market_book, market_probabilities[TheMarket])
          THEN Flatten([k \in 1..2 |->
                  PlaceCommands(k, <<>>, market_probabilities[TheMarket][k],
                                market_book.runners[k].lay,
                                market_book.runners[k].back)])
          ELSE <<>>
    /\ blotter = ApplyCommands([s \in Runners |-> <<>>], commands)
    /\ trade_count = CountTrades([s \in Runners |-> 0], commands)
    /\ result = [handler |-> "process_market_book",
                 returned |-> IF Validated(market_book,
                                           market_probabilities[TheMarket])
                              THEN "None" ELSE "NameError"]
    /\ IdleThreads
    /\ call = NoCall

SpecLadder == InitLadder /\ [][Next]_vars

\* The orders of one runner on one side, in the order they were created.
OnSide(selection_orders, side) ==
    SelectSeq(selection_orders, LAMBDA order : order.side = side)

\* C19: in take/offer mode every replace of a back order asks for a price
\* strictly below the order's price and every replace of a lay order for
\* one strictly above it; the price asked for is the snapshot's raw price
\* of the mode and side, within the side's EV limit and min/max bounds;
\* and the successive orders of a runner on a side have strictly falling
\* (back) or strictly rising (lay) prices.
C19_ReplaceMonotone ==
    [][TakeOrOffer =>
       /\ result'.handler = "process_market_book" =>
             \A i \in DOMAIN commands' :
                commands'[i].op = "replace_order" =>
                   LET c == commands'[i]
                       order == blotter[c.selection_id][c.order]
                       runner == market_book'.runners[c.selection_id]
                       active == ActiveRunners(market_book')
                       k == CHOOSE k \in DOMAIN active : active[k] = c.selection_id
                       runner_probability == market_probabilities'[TheMarket][k]
                   IN  IF order.side = "BACK"
                       THEN /\ c.price < order.price
                            /\ c.price = IF staking_strategy = "take"
                                         THEN runner.back ELSE runner.lay
                            /\ FracLe(OfPrice(c.price), BackPriceEv(runner_probability))
                            /\ min_back_price <= c.price /\ c.price <= max_back_price
                       ELSE /\ c.price > order.price
                            /\ c.price = IF staking_strategy = "take"
                                         THEN runner.lay ELSE runner.back
                            /\ FracGe(OfPrice(c.price), LayPriceEv(runner_probability))
                            /\ min_lay_price <= c.price /\ c.price <= max_lay_price
       /\ \A s \in Runners :
             LET backs == OnSide(blotter'[s], "BACK")
                 lays == OnSide(blotter'[s], "LAY")
             IN  /\ \A i \in DOMAIN backs : \A j \in DOMAIN backs :
                       i < j => backs[j].price < backs[i].price
                 /\ \A i \in DOMAIN lays : \A j \in DOMAIN lays :
                       i < j => lays[j].price > lays[i].price
                 /\ \A j \in DOMAIN blotter'[s] :
                       blotter'[s][j].status = "REPLACING" =>
                          IF blotter'[s][j].side = "BACK"
                          THEN blotter'[s][j].new_price < blotter'[s][j].price
                          ELSE blotter'[s][j].new_price > blotter'[s][j].price]_vars

\* A back order was replaced twice, each time at a lower price, and the
\* snapshot then showed a higher price again without a further replace.
C19_Witness ==
    /\ TakeOrOffer
    /\ result = [handler |-> "process_market_book", returned |-> "None"]
    /\ \E s \in DOMAIN market_book.runners :
          LET backs == OnSide(blotter[s], "BACK")
          IN  /\ Len(backs) = 3
              /\ backs[3].status = "EXECUTABLE"
              /\ market_book.runners[s].back # None
              /\ market_book.runners[s].back > backs[3].price
              /\ \A i \in DOMAIN commands : commands[i].selection_id # s

\* C21: an update that finds a NaN or zero probability for an active
\* runner ends by returning False; no exception leaves process_market_book.
C21_InvalidProbabilityReturnsFalse ==
    (/\ result.handler = "process_market_book"
     /\ Len(market_probabilities[TheMarket]) = market_book.number_of_active_runners
     /\ \E k \in DOMAIN market_probabilities[TheMarket] :
           Invalid(market_probabilities[TheMarket][k]))
    => result.returned = "False"

====
